---- MODULE Spec2Model ----
(***************************************************************************)
(* Unicode wave function collapse (src/src/main.rs): one generation run of *)
(* main's inner loop over a board of Tiles, with the four functions it     *)
(* calls (update_entropies, find_random_lowest_entropy_index, the collapse *)
(* assignment and update_adjacent_tiles) as the steps of the run.          *)
(***************************************************************************)
EXTENDS Integers, FiniteSets, Sequences, TLC

\* Largest number of cells (height * width) of the boards explored.
MaxCells == 6

\* The largest number of cells of a grid run with the catalog of main.rs 290.
RefCells == 4

\* The glyph Tile::new('-', ...) gives an undetermined board cell.
Undetermined == "-"

Dirs == {"up", "right", "down", "left"}

\* Tile::init_possibilities: the four direction sets, all empty.
init_possibilities == [d \in Dirs |-> {}]

\* Tile::new(tile, (up, right, down, left)).
Tile_new(tile, sides) ==
    [tile          |-> tile,
     sides         |-> [up |-> sides[1], right |-> sides[2],
                        down |-> sides[3], left |-> sides[4]],
     entropy       |-> 13,
     possibilities |-> init_possibilities,
     allowed       |-> {},
     active        |-> FALSE]

\* Tile::get_tile_from_char: the first tile of the catalog with that glyph,
\* as a set of at most one Tile (Option<&Tile>).
get_tile_from_char(tiles, tile_char) ==
    LET hits == {k \in 1..Len(tiles) : tiles[k].tile = tile_char}
    IN  IF hits = {} THEN {}
        ELSE {tiles[CHOOSE k \in hits : \A m \in hits : k <= m]}

(***************************************************************************)
(* Catalogs.  The tiles array of main is a fixed literal; the engine takes *)
(* any slice of Tiles, so the runs are explored over several catalogs      *)
(* with unique glyphs, none of them the undetermined marker.               *)
(***************************************************************************)
\* The blank tile alone.
CatBlank == << Tile_new("sp", <<0, 0, 0, 0>>) >>

\* Three tiles of main's array: ' ', the double vertical and horizontal bars.
CatBars ==
    << Tile_new("sp", <<0, 0, 0, 0>>),
       Tile_new("dv", <<1, 0, 1, 0>>),
       Tile_new("dh", <<0, 1, 0, 1>>) >>

\* One tile whose right code no tile's left code answers.
CatOneWay == << Tile_new("ow", <<0, 1, 0, 0>>) >>

\* Two tiles, no tile compatible with any tile on any shared face.
CatClash ==
    << Tile_new("ca", <<1, 1, 2, 2>>),
       Tile_new("cb", <<1, 1, 0, 0>>) >>

\* Two corner tiles of main's array and the blank: dead ends and free ends.
CatCorners ==
    << Tile_new("sp", <<0, 0, 0, 0>>),
       Tile_new("ul", <<0, 1, 1, 0>>),
       Tile_new("lr", <<1, 0, 0, 1>>) >>

\* Every catalog of one tile over the edge codes 0 and 1, and every catalog
\* of two tiles drawn from PairSides (a pair in one order only: no step of
\* the engine depends on the catalog's order).
SmallSides == {0, 1} \X {0, 1} \X {0, 1} \X {0, 1}
PairSides ==
    {<<0, 0, 0, 0>>, <<1, 1, 1, 1>>, <<1, 0, 1, 0>>, <<0, 1, 0, 1>>,
     <<0, 1, 0, 0>>, <<0, 0, 1, 0>>}
SidesRank(s) == 8 * s[1] + 4 * s[2] + 2 * s[3] + s[4]
SmallCatalogs ==
    {<< Tile_new("a", s) >> : s \in SmallSides}
    \cup {<< Tile_new("a", p[1]), Tile_new("b", p[2]) >> :
            p \in {q \in PairSides \X PairSides : SidesRank(q[1]) <= SidesRank(q[2])}}

Catalogs == {CatBlank, CatBars, CatOneWay, CatClash, CatCorners} \cup SmallCatalogs

\* shape = (height, width), each at least 1 (parse_args: range(1..)).
Shapes ==
    {s \in (1..MaxCells) \X (1..MaxCells) : s[1] * s[2] <= MaxCells}

VARIABLES
    tiles,      \* the catalog, a sequence of Tiles
    shape,      \* <<height, width>>
    board,      \* board[i][j], 0 <= i < height, 0 <= j < width
    i,          \* the counter of the loop `for i in 0..shape.0 * shape.1`
    pc,         \* position of main inside the loop body
    rand_x,     \* row of the cell find_random_lowest_entropy_index returned
    rand_y,     \* its column
    twin        \* a second run of main on the same catalog and shape, fed the
                \* same random values (a record board, i, pc, rand_x, rand_y);
                \* NoTwin while a single run is explored

vars == <<tiles, shape, board, i, pc, rand_x, rand_y, twin>>

NoTwin == [pc |-> "off"]

Rows(b) == DOMAIN b
Cols(b) == DOMAIN b[0]
Cells(b) == Rows(b) \X Cols(b)

\* An update_entropy that adds the new count to the stored entropy (+=).
update_entropy_accumulate(self, tls) ==
    LET values == {self.possibilities[d] : d \in Dirs} \ {{}}
    IN  IF values # {}
        THEN LET v0      == CHOOSE v \in values : TRUE
                 chars   == {ch \in v0 : \A other \in values : ch \in other}
                 allowed == UNION {get_tile_from_char(tls, ch) : ch \in chars}
             IN  [self EXCEPT !.allowed = allowed,
                              !.entropy = self.entropy + Cardinality(allowed)]
        ELSE [self EXCEPT !.allowed = {}, !.entropy = 99]

\* An update_entropy that sets entropy to allowed.len() in both branches.
update_entropy_len(self, tls) ==
    LET values == {self.possibilities[d] : d \in Dirs} \ {{}}
    IN  IF values # {}
        THEN LET v0      == CHOOSE v \in values : TRUE
                 chars   == {ch \in v0 : \A other \in values : ch \in other}
                 allowed == UNION {get_tile_from_char(tls, ch) : ch \in chars}
             IN  [self EXCEPT !.allowed = allowed,
                              !.entropy = Cardinality(allowed)]
        ELSE [self EXCEPT !.allowed = {}, !.entropy = 0]

\* An update_entropy with the sentinels placed as the design text has them:
\* 13 with no non-empty direction set, 99 on an empty intersection.
update_entropy_sentinels(self, tls) ==
    LET values == {self.possibilities[d] : d \in Dirs} \ {{}}
    IN  IF values # {}
        THEN LET v0      == CHOOSE v \in values : TRUE
                 chars   == {ch \in v0 : \A other \in values : ch \in other}
                 allowed == UNION {get_tile_from_char(tls, ch) : ch \in chars}
             IN  [self EXCEPT !.allowed = allowed,
                              !.entropy = IF allowed = {} THEN 99
                                          ELSE Cardinality(allowed)]
        ELSE [self EXCEPT !.allowed = {}, !.entropy = 13]

(***************************************************************************)
(* Tile::update_entropy.  values: the non-empty direction sets; allowed:   *)
(* the fold of intersections starting at values[0], each glyph mapped back *)
(* to its catalog Tile.                                                    *)
(***************************************************************************)
update_entropy(self, tls) ==
    LET values == {self.possibilities[d] : d \in Dirs} \ {{}}
    IN  IF values # {}
        THEN LET v0      == CHOOSE v \in values : TRUE
                 chars   == {ch \in v0 : \A other \in values : ch \in other}
                 allowed == UNION {get_tile_from_char(tls, ch) : ch \in chars}
             IN  [self EXCEPT !.allowed = allowed,
                              !.entropy = Cardinality(allowed)]
        ELSE [self EXCEPT !.allowed = {}, !.entropy = 99]

\* A direction set that compares the same side of both tiles.
direction_set_same_side(tls, n, mine, theirs) ==
    IF n.tile # Undetermined
    THEN {tls[k].tile : k \in {k \in 1..Len(tls) : tls[k].sides[mine] = n.sides[mine]}}
    ELSE {tls[k].tile : k \in 1..Len(tls)}

\* The glyphs a direction set receives from the neighbour n of an active,
\* undetermined cell; `mine` is the side of the catalog tile compared and
\* `theirs` the side of the neighbour (main.rs 116-191).
\* A direction_set that does not compare the side codes.
direction_set_all(tls, n, mine, theirs) ==
    {tls[k].tile : k \in 1..Len(tls)}

direction_set(tls, n, mine, theirs) ==
    IF n.tile # Undetermined
    THEN {tls[k].tile : k \in {k \in 1..Len(tls) : tls[k].sides[mine] = n.sides[theirs]}}
    ELSE {tls[k].tile : k \in 1..Len(tls)}

\* An update_cell without the `continue` for an inactive cell: the cleared
\* clone is written back and update_entropy runs on it.
update_cell_no_skip(b, tls, r, c) ==
    LET hh   == Cardinality(Rows(b))
        ww   == Cardinality(Cols(b))
        tile == b[r][c]
        poss == [d \in Dirs |->
                   IF tile.tile # Undetermined \/ ~tile.active THEN {}
                   ELSE CASE d = "up"    -> IF r > 0 THEN direction_set(tls, b[r - 1][c], "up", "down") ELSE {}
                          [] d = "right" -> IF c < ww - 1 THEN direction_set(tls, b[r][c + 1], "right", "left") ELSE {}
                          [] d = "down"  -> IF r < hh - 1 THEN direction_set(tls, b[r + 1][c], "down", "up") ELSE {}
                          [] d = "left"  -> IF c > 0 THEN direction_set(tls, b[r][c - 1], "left", "right") ELSE {}]
    IN  update_entropy([tile EXCEPT !.possibilities = poss], tls)

(***************************************************************************)
(* update_entropies.  The pass visits the cells in row order and writes    *)
(* them in place, but a cell reads only the glyph and sides of its         *)
(* neighbours, which the pass never writes, so each cell is a function of  *)
(* the board before the pass.  An inactive cell is left as it was (the     *)
(* cleared clone is dropped by `continue`).                                *)
(***************************************************************************)
update_cell(b, tls, r, c) ==
    LET hh   == Cardinality(Rows(b))
        ww   == Cardinality(Cols(b))
        tile == b[r][c]
        poss == [d \in Dirs |->
                   IF tile.tile # Undetermined THEN {}
                   ELSE CASE d = "up"    -> IF r > 0 THEN direction_set(tls, b[r - 1][c], "up", "down") ELSE {}
                          [] d = "right" -> IF c < ww - 1 THEN direction_set(tls, b[r][c + 1], "right", "left") ELSE {}
                          [] d = "down"  -> IF r < hh - 1 THEN direction_set(tls, b[r + 1][c], "down", "up") ELSE {}
                          [] d = "left"  -> IF c > 0 THEN direction_set(tls, b[r][c - 1], "left", "right") ELSE {}]
    IN  IF ~tile.active THEN tile
        ELSE update_entropy([tile EXCEPT !.possibilities = poss], tls)

update_entropies(b, tls) ==
    [r \in Rows(b) |-> [c \in Cols(b) |-> update_cell(b, tls, r, c)]]

\* A selection with a position-based tie-break: the first cell in row order.
find_random_lowest_entropy_index_first(b) ==
    LET lowest_entropy ==
            CHOOSE e \in {b[p[1]][p[2]].entropy : p \in Cells(b)} :
                \A p \in Cells(b) : e <= b[p[1]][p[2]].entropy
        S == {p \in Cells(b) : b[p[1]][p[2]].entropy = lowest_entropy}
    IN  {p \in S : \A q \in S : p[1] < q[1] \/ (p[1] = q[1] /\ p[2] <= q[2])}

\* find_random_lowest_entropy_index: the cells the random choice is among.
find_random_lowest_entropy_index(b) ==
    LET lowest_entropy ==
            CHOOSE e \in {b[p[1]][p[2]].entropy : p \in Cells(b)} :
                \A p \in Cells(b) : e <= b[p[1]][p[2]].entropy
    IN  {p \in Cells(b) : b[p[1]][p[2]].entropy = lowest_entropy}

\* A collapse that draws from the whole catalog in every iteration.
collapse_choices_catalog(b, tls, x, y, iter) ==
    {tls[k] : k \in 1..Len(tls)}

\* A collapse that falls back on the whole catalog when allowed is empty.
collapse_choices_fallback(b, tls, x, y, iter) ==
    IF iter # 0 /\ b[x][y].allowed # {} THEN b[x][y].allowed
    ELSE {tls[k] : k \in 1..Len(tls)}

\* A collapse that draws from the allowed list in the first iteration too.
collapse_choices_allowed(b, tls, x, y, iter) ==
    b[x][y].allowed

\* The tiles the collapse of main draws chosen_tile from: the allowed list of
\* the selected cell (main.rs 332-336), the whole catalog when i = 0 (345).
collapse_choices(b, tls, x, y, iter) ==
    IF iter # 0 THEN b[x][y].allowed
    ELSE {tls[k] : k \in 1..Len(tls)}

\* A loop that stops one iteration early.
loop_continues_short(iter, shp) == iter < shp[1] * shp[2] - 1

\* The range of the loop `for i in 0..shape.0 * shape.1`: whether the body
\* runs for the counter value iter.
loop_continues(iter, shp) == iter < shp[1] * shp[2]

\* An update_adjacent_tiles that bounds the row by the number of columns and
\* the column by the number of rows.
update_adjacent_tiles_swapped(b, x, y) ==
    LET width  == Cardinality(Cols(b))
        height == Cardinality(Rows(b))
    IN  [r \in Rows(b) |-> [c \in Cols(b) |->
            IF r = x /\ c = y THEN [b[r][c] EXCEPT !.active = FALSE]
            ELSE IF /\ \/ (x > 0 /\ r = x - 1 /\ c = y)
                       \/ (y < height - 1 /\ r = x /\ c = y + 1)
                       \/ (x < width - 1 /\ r = x + 1 /\ c = y)
                       \/ (y > 0 /\ r = x /\ c = y - 1)
                    /\ b[r][c].tile = Undetermined
                 THEN [b[r][c] EXCEPT !.active = TRUE]
                 ELSE b[r][c]]]

\* An update_adjacent_tiles without the `tile == '-'` tests.
update_adjacent_tiles_all(b, x, y) ==
    LET width  == Cardinality(Rows(b))
        height == Cardinality(Cols(b))
    IN  [r \in Rows(b) |-> [c \in Cols(b) |->
            IF r = x /\ c = y THEN [b[r][c] EXCEPT !.active = FALSE]
            ELSE IF \/ (x > 0 /\ r = x - 1 /\ c = y)
                    \/ (y < height - 1 /\ r = x /\ c = y + 1)
                    \/ (x < width - 1 /\ r = x + 1 /\ c = y)
                    \/ (y > 0 /\ r = x /\ c = y - 1)
                 THEN [b[r][c] EXCEPT !.active = TRUE]
                 ELSE b[r][c]]]

\* update_adjacent_tiles.
update_adjacent_tiles(b, x, y) ==
    LET width  == Cardinality(Rows(b))
        height == Cardinality(Cols(b))
    IN  [r \in Rows(b) |-> [c \in Cols(b) |->
            IF r = x /\ c = y THEN [b[r][c] EXCEPT !.active = FALSE]
            ELSE IF /\ \/ (x > 0 /\ r = x - 1 /\ c = y)
                       \/ (y < height - 1 /\ r = x /\ c = y + 1)
                       \/ (x < width - 1 /\ r = x + 1 /\ c = y)
                       \/ (y > 0 /\ r = x /\ c = y - 1)
                    /\ b[r][c].tile = Undetermined
                 THEN [b[r][c] EXCEPT !.active = TRUE]
                 ELSE b[r][c]]]

(***************************************************************************)
(* One generation run: the body of `for iter in 0..n_iter` in main.        *)
(***************************************************************************)
Init ==
    /\ tiles \in Catalogs
    /\ shape \in Shapes
    /\ board = [r \in 0..(shape[1] - 1) |->
                 [c \in 0..(shape[2] - 1) |-> Tile_new(Undetermined, <<0, 0, 0, 0>>)]]
    /\ i = 0
    /\ pc = "select"
    /\ rand_x = 0
    /\ rand_y = 0
    /\ twin = NoTwin

\* main.rs 329: update_entropies(&mut board, &tiles), when i != 0.
UpdateEntropies ==
    /\ pc = "update"
    /\ board' = update_entropies(board, tiles)
    /\ pc' = "select"
    /\ UNCHANGED <<tiles, shape, i, rand_x, rand_y, twin>>

\* main.rs 331 and 344: (rand_x, rand_y) = find_random_lowest_entropy_index.
Select ==
    /\ pc = "select"
    /\ \E p \in find_random_lowest_entropy_index(board) :
          /\ rand_x' = p[1]
          /\ rand_y' = p[2]
    /\ pc' = "collapse"
    /\ UNCHANGED <<tiles, shape, board, i, twin>>

\* main.rs 332-337 and 345: choose(..).unwrap() panics on an empty list,
\* otherwise the chosen catalog Tile replaces the cell.
Collapse ==
    /\ pc = "collapse"
    /\ LET choices == collapse_choices(board, tiles, rand_x, rand_y, i)
       IN  IF choices = {}
           THEN /\ pc' = "aborted"
                /\ UNCHANGED board
           ELSE /\ \E chosen_tile \in choices :
                      board' = [board EXCEPT ![rand_x][rand_y] = chosen_tile]
                /\ pc' = "activate"
    /\ UNCHANGED <<tiles, shape, i, rand_x, rand_y, twin>>

\* main.rs 340 and 346: update_adjacent_tiles, then the next loop iteration.
Activate ==
    /\ pc = "activate"
    /\ board' = update_adjacent_tiles(board, rand_x, rand_y)
    /\ i' = i + 1
    /\ pc' = IF loop_continues(i + 1, shape) THEN "update" ELSE "done"
    /\ UNCHANGED <<tiles, shape, rand_x, rand_y, twin>>

Next == UpdateEntropies \/ Select \/ Collapse \/ Activate

Spec == Init /\ [][Next]_vars

\* main is one sequential thread: while the run has a next step, it takes it.
FairSpec == Spec /\ WF_vars(Next)

(***************************************************************************)
(* Two runs fed the same random values.  Every `choose` of main draws one  *)
(* value r from the random source and returns the element at an index r    *)
(* fixes for the list's length (here r modulo the length).  The list of    *)
(* find_random_lowest_entropy_index is filled in row order and the tiles   *)
(* array is a literal, but the allowed list is collected from the          *)
(* iteration of a HashSet<char> (main.rs 60-69), whose order depends on    *)
(* the hasher's per-instance random keys: any order of its elements.       *)
(***************************************************************************)
\* lowest_entropy_tiles: the cells of minimum entropy, in row order.
lowest_entropy_tiles(b) ==
    LET S    == find_random_lowest_entropy_index(b)
        w    == Cardinality(Cols(b))
        rank(p) == Cardinality({q \in S : q[1] * w + q[2] < p[1] * w + p[2]})
    IN  [k \in 1..Cardinality(S) |-> CHOOSE p \in S : rank(p) = k - 1]

\* slice.choose(&mut rng) with the value r drawn from the source.
choose(list, r) == list[(r % Len(list)) + 1]

\* The orders in which a Vec collected from a HashSet can hold the set S.
hash_orders(S) ==
    {f \in [1..Cardinality(S) -> S] : \A a, b \in 1..Cardinality(S) : f[a] = f[b] => a = b}

\* The states one step of the loop body can take the run `run` to when the
\* random source yields r.
FedNext(run, r) ==
    CASE run.pc = "update" ->
            {[run EXCEPT !.board = update_entropies(run.board, tiles), !.pc = "select"]}
      [] run.pc = "select" ->
            LET p == choose(lowest_entropy_tiles(run.board), r)
            IN  {[run EXCEPT !.rand_x = p[1], !.rand_y = p[2], !.pc = "collapse"]}
      [] run.pc = "collapse" ->
            LET choices == collapse_choices(run.board, tiles, run.rand_x, run.rand_y, run.i)
                lists   == IF run.i # 0 THEN hash_orders(choices) ELSE {tiles}
            IN  IF choices = {} THEN {[run EXCEPT !.pc = "aborted"]}
                ELSE {[run EXCEPT !.board[run.rand_x][run.rand_y] = choose(list, r),
                                  !.pc = "activate"] : list \in lists}
      [] run.pc = "activate" ->
            {[run EXCEPT !.board = update_adjacent_tiles(run.board, run.rand_x, run.rand_y),
                         !.i = run.i + 1,
                         !.pc = IF loop_continues(run.i + 1, shape) THEN "update" ELSE "done"]}
      [] OTHER -> {}

\* The values the random source can yield for one choose.
Fed == 0..(shape[1] * shape[2] * Len(tiles) - 1)

Run1 == [board |-> board, i |-> i, pc |-> pc, rand_x |-> rand_x, rand_y |-> rand_y]

\* One step of both runs, at the same place of the loop body, on the same r.
TwinStep(at) ==
    /\ pc = at
    /\ twin.pc = at
    /\ \E r \in Fed :
          /\ \E n \in FedNext(Run1, r) :
                /\ board' = n.board
                /\ i' = n.i
                /\ pc' = n.pc
                /\ rand_x' = n.rand_x
                /\ rand_y' = n.rand_y
          /\ twin' \in FedNext(twin, r)
    /\ UNCHANGED <<tiles, shape>>

TwinUpdateEntropies == TwinStep("update")
TwinSelect == TwinStep("select")
TwinCollapse == TwinStep("collapse")
TwinActivate == TwinStep("activate")

TwinCatalogs == {CatBlank, CatBars, CatOneWay, CatCorners}
TwinShapes == {s \in Shapes : s[1] * s[2] <= 4}

TwinInit ==
    /\ tiles \in TwinCatalogs
    /\ shape \in TwinShapes
    /\ board = [r \in 0..(shape[1] - 1) |->
                 [c \in 0..(shape[2] - 1) |-> Tile_new(Undetermined, <<0, 0, 0, 0>>)]]
    /\ i = 0
    /\ pc = "select"
    /\ rand_x = 0
    /\ rand_y = 0
    /\ twin = Run1

TwinNext == TwinUpdateEntropies \/ TwinSelect \/ TwinCollapse \/ TwinActivate

TwinSpec == TwinInit /\ [][TwinNext]_vars

(***************************************************************************)
(* The catalog of main.rs 290-318, in its order, sides (up, right, down,   *)
(* left): the blank, the eleven double-line glyphs, the eleven single-line *)
(* glyphs and the four mixed ones.  A glyph is named by its Unicode        *)
(* box-drawing name: D double, L light, then the arms V(ertical),          *)
(* H(orizontal), U(p), D(own), R(ight), L(eft); a mixed glyph names its    *)
(* double arms after "x".                                                  *)
(***************************************************************************)
CatPlain ==
    << Tile_new("sp",    <<0, 0, 0, 0>>),
       Tile_new("D_VR",  <<1, 1, 1, 0>>),
       Tile_new("D_DH",  <<0, 1, 1, 1>>),
       Tile_new("D_VL",  <<1, 0, 1, 1>>),
       Tile_new("D_UH",  <<1, 1, 0, 1>>),
       Tile_new("D_DR",  <<0, 1, 1, 0>>),
       Tile_new("D_DL",  <<0, 0, 1, 1>>),
       Tile_new("D_UR",  <<1, 1, 0, 0>>),
       Tile_new("D_UL",  <<1, 0, 0, 1>>),
       Tile_new("D_VH",  <<1, 1, 1, 1>>),
       Tile_new("D_V",   <<1, 0, 1, 0>>),
       Tile_new("D_H",   <<0, 1, 0, 1>>),
       Tile_new("L_VR",  <<2, 2, 2, 0>>),
       Tile_new("L_DH",  <<0, 2, 2, 2>>),
       Tile_new("L_VL",  <<2, 0, 2, 2>>),
       Tile_new("L_UH",  <<2, 2, 0, 2>>),
       Tile_new("L_DR",  <<0, 2, 2, 0>>),
       Tile_new("L_DL",  <<0, 0, 2, 2>>),
       Tile_new("L_UR",  <<2, 2, 0, 0>>),
       Tile_new("L_UL",  <<2, 0, 0, 2>>),
       Tile_new("L_VH",  <<2, 2, 2, 2>>),
       Tile_new("L_V",   <<2, 0, 2, 0>>),
       Tile_new("L_H",   <<0, 2, 0, 2>>) >>

\* main.rs 314-317: the four glyphs that join a double arm to light ones.
CatMixed ==
    << Tile_new("L_UHxU", <<1, 2, 0, 2>>),
       Tile_new("L_VLxL", <<2, 0, 2, 1>>),
       Tile_new("L_DHxD", <<0, 2, 1, 2>>),
       Tile_new("L_VRxR", <<2, 1, 2, 0>>) >>

CatReference == CatPlain \o CatMixed

\* The grids of at most RefCells cells: the lines and the 2x2 square.
RefShapes == {s \in Shapes : s[1] * s[2] <= RefCells}

\* main.rs 287-326 with the catalog as it is written there.
RefInit ==
    /\ tiles = CatReference
    /\ shape \in RefShapes
    /\ board = [r \in 0..(shape[1] - 1) |->
                 [c \in 0..(shape[2] - 1) |-> Tile_new(Undetermined, <<0, 0, 0, 0>>)]]
    /\ i = 0
    /\ pc = "select"
    /\ rand_x = 0
    /\ rand_y = 0
    /\ twin = NoTwin

RefSpec == RefInit /\ [][Next]_vars

RefFairSpec == RefSpec /\ WF_vars(Next)

(***************************************************************************)
(* Vocabulary of the properties.                                           *)
(***************************************************************************)
Height == shape[1]
Width == shape[2]
Cell(p) == board[p[1]][p[2]]
IsResolved(t) == t.tile # Undetermined
ResolvedCells == {p \in Cells(board) : IsResolved(Cell(p))}
CatalogTiles == {tiles[k] : k \in 1..Len(tiles)}
CatalogGlyphs == {tiles[k].tile : k \in 1..Len(tiles)}
\* The state right after the recomputation pass of an iteration.
AfterPass == pc = "select" /\ i # 0
\* The 4-neighbours of p that are on the board.
Neighbours(p) ==
    {q \in Cells(board) :
        \/ (q[2] = p[2] /\ (q[1] = p[1] - 1 \/ q[1] = p[1] + 1))
        \/ (q[1] = p[1] /\ (q[2] = p[2] - 1 \/ q[2] = p[2] + 1))}

(***************************************************************************)
(* C1.  In every reachable state, two adjacent resolved cells have         *)
(* matching edge codes: the upper cell's down code equals the lower cell's *)
(* up code, the left cell's right code equals the right cell's left code.  *)
(***************************************************************************)
C1_EdgesMatch ==
    \A p \in Cells(board) :
        /\ (/\ p[1] + 1 \in Rows(board)
            /\ IsResolved(Cell(p))
            /\ IsResolved(board[p[1] + 1][p[2]]))
           => Cell(p).sides.down = board[p[1] + 1][p[2]].sides.up
        /\ (/\ p[2] + 1 \in Cols(board)
            /\ IsResolved(Cell(p))
            /\ IsResolved(board[p[1]][p[2] + 1]))
           => Cell(p).sides.right = board[p[1]][p[2] + 1].sides.left

(***************************************************************************)
(* C2.  Every iteration that does not abort resolves exactly one           *)
(* previously undetermined cell and changes no other glyph: the only step  *)
(* that changes a glyph is a collapse that does not abort, it turns the    *)
(* selected, undetermined cell into a resolved one and leaves every other  *)
(* glyph alone; so after k completed iterations exactly k cells are        *)
(* resolved (k + 1 between the collapse and the end of its iteration).     *)
(***************************************************************************)
C2_Count ==
    /\ i \in 0..(Height * Width)
    /\ Cardinality(ResolvedCells) = IF pc = "activate" THEN i + 1 ELSE i

C2_Step ==
    /\ (pc = "collapse" /\ pc' = "activate") =>
          /\ ~IsResolved(Cell(<<rand_x, rand_y>>))
          /\ IsResolved(board'[rand_x][rand_y])
          /\ \A p \in Cells(board) \ {<<rand_x, rand_y>>} :
                board'[p[1]][p[2]].tile = Cell(p).tile
    /\ ~(pc = "collapse" /\ pc' = "activate") =>
          \A p \in Cells(board) : board'[p[1]][p[2]].tile = Cell(p).tile

C2_OneCellPerIteration == [](C2_Count) /\ [][C2_Step]_vars

\* A run of at least four iterations completed.
C2_Witness ==
    pc = "done" /\ i >= 4 /\ Cardinality(ResolvedCells) = i

(***************************************************************************)
(* C3.  Every run ends, either completed after exactly width*height        *)
(* iterations with every cell resolved, or aborted on a Contradiction (the *)
(* selected cell's allowed list empty at collapse time); while it has not  *)
(* ended it has run fewer than width*height iterations.                    *)
(***************************************************************************)
C3_Ends ==
    /\ pc = "done" =>
          /\ i = Height * Width
          /\ \A p \in Cells(board) : IsResolved(Cell(p))
    /\ pc = "aborted" =>
          /\ i \in 1..(Height * Width - 1)
          /\ Cell(<<rand_x, rand_y>>).allowed = {}
    /\ pc \notin {"done", "aborted"} => i < Height * Width

C3_Terminates == [](C3_Ends) /\ <>(pc \in {"done", "aborted"})

\* A run on a 2x3 board completed.
C3_Witness ==
    pc = "done" /\ Height = 2 /\ Width = 3 /\ tiles = CatBars

(***************************************************************************)
(* C4.  Once a cell is resolved its glyph never changes: no step returns   *)
(* it to undetermined or overwrites it with another tile.                  *)
(***************************************************************************)
C4_ResolvedStays ==
    [][\A p \in Cells(board) :
          IsResolved(Cell(p)) => board'[p[1]][p[2]].tile = Cell(p).tile]_vars

\* A resolved cell is selected again, with another tile in the catalog.
C4_Witness ==
    /\ pc = "aborted"
    /\ IsResolved(Cell(<<rand_x, rand_y>>))
    /\ Len(tiles) > 1

(***************************************************************************)
(* C5.  In an iteration after the first, a collapse of a cell whose        *)
(* allowed list is empty aborts the run and changes no glyph and no active *)
(* flag (nothing of the board); an aborted run takes no further step.      *)
(***************************************************************************)
C5_AbortStep ==
    /\ (pc = "collapse" /\ i # 0 /\ Cell(<<rand_x, rand_y>>).allowed = {}) =>
          /\ pc' = "aborted"
          /\ board' = board
    /\ pc = "aborted" => UNCHANGED vars

C5_AbortOnEmpty == [][C5_AbortStep]_vars

\* An undetermined cell with conflicting constraints was selected: aborted.
C5_Witness ==
    /\ pc = "aborted"
    /\ ~IsResolved(Cell(<<rand_x, rand_y>>))
    /\ Cell(<<rand_x, rand_y>>).allowed = {}
    /\ Cell(<<rand_x, rand_y>>).active

(***************************************************************************)
(* C6.  After a recomputation pass, for every active unresolved cell C:    *)
(* a direction with a resolved in-bounds neighbour N holds exactly the     *)
(* catalog glyphs whose code on the side facing N equals N's code on the   *)
(* side facing C, a direction with an unresolved in-bounds neighbour holds *)
(* every catalog glyph, an out-of-bounds direction is empty, and allowed   *)
(* is the set of catalog tiles in the intersection of the non-empty        *)
(* direction sets (no tile when no direction set is non-empty).            *)
(***************************************************************************)
Opposite(d) ==
    CASE d = "up" -> "down" [] d = "down" -> "up"
      [] d = "left" -> "right" [] d = "right" -> "left"

Towards(p, d) ==
    CASE d = "up" -> <<p[1] - 1, p[2]>> [] d = "down" -> <<p[1] + 1, p[2]>>
      [] d = "left" -> <<p[1], p[2] - 1>> [] d = "right" -> <<p[1], p[2] + 1>>

FacingSet(p, d) ==
    LET q == Towards(p, d)
    IN  IF q \notin Cells(board) THEN {}
        ELSE IF IsResolved(Cell(q))
             THEN {t.tile : t \in {u \in CatalogTiles :
                                      u.sides[d] = Cell(q).sides[Opposite(d)]}}
             ELSE CatalogGlyphs

NonEmptyDirs(t) == {d \in Dirs : t.possibilities[d] # {}}

C6_PossibilitySets ==
    AfterPass =>
        \A p \in Cells(board) :
            (Cell(p).active /\ ~IsResolved(Cell(p))) =>
                /\ \A d \in Dirs : Cell(p).possibilities[d] = FacingSet(p, d)
                /\ Cell(p).allowed =
                      {t \in CatalogTiles :
                          /\ NonEmptyDirs(Cell(p)) # {}
                          /\ \A d \in NonEmptyDirs(Cell(p)) :
                                t.tile \in Cell(p).possibilities[d]}

\* An active cell with a resolved neighbour, an unresolved neighbour and an
\* edge of the board, allowed some but not all tiles of the catalog.
C6_Witness ==
    /\ AfterPass
    /\ \E p \in Cells(board) :
          /\ Cell(p).active /\ ~IsResolved(Cell(p))
          /\ \E d \in Dirs : Towards(p, d) \notin Cells(board)
          /\ \E q \in Neighbours(p) : IsResolved(Cell(q))
          /\ \E q \in Neighbours(p) : ~IsResolved(Cell(q))
          /\ Cell(p).allowed # {}
          /\ Cell(p).allowed # CatalogTiles

C8_Step ==
    (pc = "activate" /\ pc' # "activate") =>
        LET p == <<rand_x, rand_y>>
        IN  /\ ~board'[p[1]][p[2]].active
            /\ \A q \in Neighbours(p) :
                  IF IsResolved(Cell(q))
                  THEN board'[q[1]][q[2]] = Cell(q)
                  ELSE board'[q[1]][q[2]].active
            /\ \A q \in Cells(board) \ ({p} \cup Neighbours(p)) :
                  /\ board'[q[1]][q[2]].active = Cell(q).active
                  /\ board'[q[1]][q[2]].tile = Cell(q).tile

C8_ActivationFrame == [][C8_Step]_vars

\* On a 2x3 or 3x2 board, the cell just collapsed has a resolved neighbour,
\* an undetermined neighbour now active, and an active cell farther away.
C8_Witness ==
    /\ pc = "update"
    /\ Height # Width /\ Height > 1 /\ Width > 1
    /\ ~Cell(<<rand_x, rand_y>>).active
    /\ \E q \in Neighbours(<<rand_x, rand_y>>) : IsResolved(Cell(q))
    /\ \E q \in Neighbours(<<rand_x, rand_y>>) :
          ~IsResolved(Cell(q)) /\ Cell(q).active
    /\ \E q \in Cells(board) \ ({<<rand_x, rand_y>>} \cup Neighbours(<<rand_x, rand_y>>)) :
          Cell(q).active

(***************************************************************************)
(* C9.  The cell selected for collapse is never an already-resolved cell.  *)
(***************************************************************************)
C9_SelectedUnresolved ==
    pc = "collapse" => ~IsResolved(Cell(<<rand_x, rand_y>>))

(***************************************************************************)
(* C10.  Recomputation is idempotent: right after the recomputation pass   *)
(* of an iteration, a second pass of update_entropies with no collapse in  *)
(* between gives every cell the same allowed set and the same entropy as   *)
(* the first pass left it.                                                 *)
(***************************************************************************)
C10_Idempotent ==
    AfterPass =>
        LET again == update_entropies(board, tiles)
        IN  \A p \in Cells(board) :
                /\ again[p[1]][p[2]].allowed = Cell(p).allowed
                /\ again[p[1]][p[2]].entropy = Cell(p).entropy

\* A pass that gave an active cell a non-empty allowed set next to a cell it
\* left exhausted, on a board with two resolved cells.
C10_Witness ==
    /\ AfterPass
    /\ Cardinality(ResolvedCells) >= 2
    /\ \E p \in Cells(board) : Cell(p).active /\ Cell(p).allowed # {}
    /\ \E p \in Cells(board) : Cell(p).active /\ Cell(p).allowed = {}

(***************************************************************************)
(* C11.  With a catalog of exactly two tiles, no tile compatible with any  *)
(* tile (itself included) on any shared face, a run on a 2x2 board never   *)
(* completes (it aborts on or before the 4th collapse), and no two         *)
(* adjacent resolved cells ever have mismatched edge codes.                *)
(***************************************************************************)
NoTileCompatible ==
    \A a \in CatalogTiles : \A b \in CatalogTiles :
        a.sides.down # b.sides.up /\ a.sides.right # b.sides.left

C11_ClashAborts ==
    (Len(tiles) = 2 /\ NoTileCompatible /\ shape = <<2, 2>>) =>
        /\ pc # "done"
        /\ i <= 3
        /\ \A p \in Cells(board) : \A q \in Neighbours(p) :
              (IsResolved(Cell(p)) /\ IsResolved(Cell(q))) =>
                  /\ q[1] = p[1] + 1 => Cell(p).sides.down = Cell(q).sides.up
                  /\ q[2] = p[2] + 1 => Cell(p).sides.right = Cell(q).sides.left

(***************************************************************************)
(* C12.  The first collapse (iteration 0) never aborts and gives the       *)
(* selected cell a tile of the catalog, any tile of the catalog being a    *)
(* possible outcome; a run on a 1x1 board never aborts and ends after      *)
(* exactly one iteration with its cell resolved to a catalog glyph.        *)
(***************************************************************************)
C12_State ==
    /\ (pc = "collapse" /\ i = 0) =>
          \A t \in CatalogTiles :
              ENABLED (Collapse /\ board'[rand_x][rand_y] = t)
    /\ shape = <<1, 1>> =>
          /\ pc # "aborted"
          /\ pc = "done" => (i = 1 /\ board[0][0].tile \in CatalogGlyphs)

C12_Step ==
    (pc = "collapse" /\ i = 0) =>
        /\ pc' = "activate"
        /\ board'[rand_x][rand_y] \in CatalogTiles

C12_FirstCollapse == [](C12_State) /\ [][C12_Step]_vars

\* A run on a 1x1 board completed.
C12_Witness ==
    pc = "done" /\ shape = <<1, 1>> /\ i = 1 /\ IsResolved(board[0][0])

(***************************************************************************)
(* C13.  Two runs with the same catalog and shape, fed the same sequence   *)
(* of random values, end with the same resolved grid.                      *)
(***************************************************************************)
C13_SameGrid ==
    (pc = "done" /\ twin.pc = "done") =>
        \A p \in Cells(board) : Cell(p).tile = twin.board[p[1]][p[2]].tile

(***************************************************************************)
(* C14.  The cell selected in an iteration holds the minimum entropy over  *)
(* all cells of the board, active or not, and every cell holding that      *)
(* minimum can be the one selected.                                        *)
(***************************************************************************)
HoldsMinimum(p) == \A q \in Cells(board) : Cell(p).entropy <= Cell(q).entropy

C14_MinimumEntropy ==
    /\ pc = "collapse" => HoldsMinimum(<<rand_x, rand_y>>)
    /\ pc = "select" =>
          \A p \in Cells(board) :
              HoldsMinimum(p) => ENABLED (Select /\ rand_x' = p[1] /\ rand_y' = p[2])

\* After the first iteration, two cells hold the minimum and the one
\* selected is not the first of them in row order.
C14_Witness ==
    /\ pc = "collapse" /\ i # 0
    /\ \E p \in Cells(board) :
          /\ HoldsMinimum(p)
          /\ p[1] < rand_x \/ (p[1] = rand_x /\ p[2] < rand_y)

(***************************************************************************)
(* C15 as stated.  An active, undetermined cell whose allowed list is      *)
(* empty after the recomputation is not the cell selected in an iteration  *)
(* in which some other active cell has a non-empty allowed list.           *)
(***************************************************************************)
OtherActiveHasAllowed(p) ==
    \E q \in Cells(board) \ {p} : Cell(q).active /\ Cell(q).allowed # {}

C16_CellStep(p) ==
    LET before == Cell(p)
        after  == board'[p[1]][p[2]]
    IN  /\ (~before.active /\ after.active) =>
              /\ pc = "activate"
              /\ ~IsResolved(before) /\ ~IsResolved(after)
              /\ p \in Neighbours(<<rand_x, rand_y>>)
        /\ (before.active /\ ~IsResolved(before)) =>
              \/ after.active /\ ~IsResolved(after)
              \/ ~after.active /\ IsResolved(after)
        /\ (~IsResolved(before) /\ IsResolved(after)) =>
              /\ pc = "collapse" /\ p = <<rand_x, rand_y>>
              /\ i # 0 => before.active
              /\ i = 0 => ~before.active
        /\ IsResolved(before) => (IsResolved(after) /\ ~after.active)

C16_StateMachine ==
    /\ [](\A p \in Cells(board) : IsResolved(Cell(p)) => ~Cell(p).active)
    /\ [][\A p \in Cells(board) : C16_CellStep(p)]_vars

\* A cell that was active has just been collapsed, beside the first cell.
C16_Witness ==
    /\ pc = "activate" /\ i = 1
    /\ IsResolved(Cell(<<rand_x, rand_y>>))
    /\ \E q \in Neighbours(<<rand_x, rand_y>>) : IsResolved(Cell(q))
    /\ \E q \in Cells(board) : Cell(q).active /\ ~IsResolved(Cell(q))

(***************************************************************************)
(* C17.  The recomputation pass changes no glyph, no sides and no active   *)
(* flag, and leaves every inactive cell, resolved or undetermined, with    *)
(* its entropy and allowed list as they were and its four possibility sets *)
(* empty.                                                                  *)
(***************************************************************************)
C17_Step ==
    pc = "update" =>
        \A p \in Cells(board) :
            LET before == Cell(p)
                after  == board'[p[1]][p[2]]
            IN  /\ after.tile = before.tile
                /\ after.sides = before.sides
                /\ after.active = before.active
                /\ ~before.active =>
                      /\ after.entropy = before.entropy
                      /\ after.allowed = before.allowed
                      /\ \A d \in Dirs : after.possibilities[d] = {}

C17_PassFrame == [][C17_Step]_vars

\* After a pass: a resolved cell, an inactive undetermined cell and an
\* active cell the pass gave tiles.
C17_Witness ==
    /\ AfterPass
    /\ \E p \in Cells(board) : IsResolved(Cell(p)) /\ ~Cell(p).active
    /\ \E p \in Cells(board) : ~IsResolved(Cell(p)) /\ ~Cell(p).active
    /\ \E p \in Cells(board) : Cell(p).active /\ Cell(p).allowed # {}

(***************************************************************************)
(* C18.  Between iterations, after the first collapse, a cell is active    *)
(* exactly when it is undetermined and has a resolved 4-neighbour; so no   *)
(* resolved cell is active, and while a cell is undetermined some cell is  *)
(* active.                                                                 *)
(***************************************************************************)
C18_Frontier ==
    (i >= 1 /\ pc # "activate") =>
        /\ \A p \in Cells(board) :
              Cell(p).active <=>
                  /\ ~IsResolved(Cell(p))
                  /\ \E q \in Neighbours(p) : IsResolved(Cell(q))
        /\ \A p \in Cells(board) : IsResolved(Cell(p)) => ~Cell(p).active
        /\ (\E p \in Cells(board) : ~IsResolved(Cell(p))) =>
              \E p \in Cells(board) : Cell(p).active

\* On a 2x3 or 3x2 board with three cells resolved: active cells, and an
\* undetermined cell still off the frontier or none left off it.
C18_Witness ==
    /\ pc = "update" /\ i = 3
    /\ Height > 1 /\ Width > 1 /\ Height # Width
    /\ Cardinality({p \in Cells(board) : Cell(p).active}) >= 2

(***************************************************************************)
(* C19.  With the catalog of main.rs 290-318, after every recomputation    *)
(* every active cell has entropy at most 10 and every inactive cell,       *)
(* resolved or undetermined, has entropy 13; and the cell selected in an   *)
(* iteration after the first is active and undetermined.  Every tile of the *)
(* catalog, on each of its sides, admits at least one and at most 10 tiles, *)
(* which bounds the entropy of an active cell on a grid of any size.        *)
(***************************************************************************)
C19_ActiveBelowInactive ==
    /\ AfterPass =>
          \A p \in Cells(board) :
              IF Cell(p).active THEN Cell(p).entropy <= 10
                                ELSE Cell(p).entropy = 13
    /\ (pc = "collapse" /\ i # 0) =>
          /\ Cell(<<rand_x, rand_y>>).active
          /\ ~IsResolved(Cell(<<rand_x, rand_y>>))
    /\ (pc = "select" /\ i = 0) =>
          \A n \in CatalogTiles : \A d \in Dirs :
             /\ direction_set(tiles, n, d, Opposite(d)) # {}
             /\ Cardinality(direction_set(tiles, n, d, Opposite(d))) <= 10

\* A cell of entropy 10 is selected while a resolved and an inactive
\* undetermined cell hold 13.
C19_Witness ==
    /\ tiles = CatReference
    /\ pc = "collapse" /\ i # 0
    /\ Cell(<<rand_x, rand_y>>).entropy = 10
    /\ \E p \in Cells(board) : IsResolved(Cell(p)) /\ Cell(p).entropy = 13
    /\ \E p \in Cells(board) : ~IsResolved(Cell(p)) /\ ~Cell(p).active /\ Cell(p).entropy = 13

(***************************************************************************)
(* C20.  With the catalog of main.rs 290-318, a run on a 2x2 grid or on a  *)
(* grid of one row or one column never aborts: the selected cell always    *)
(* has a tile to take, and the run ends with every cell resolved.          *)
(***************************************************************************)
C20_NoAbort ==
    /\ [](pc # "aborted")
    /\ [](pc = "collapse" => collapse_choices(board, tiles, rand_x, rand_y, i) # {})
    /\ <>(pc = "done" /\ \A p \in Cells(board) : IsResolved(Cell(p)))

\* The fourth cell of a 2x2 grid, two resolved neighbours, is selected.
C20_Witness ==
    /\ tiles = CatReference
    /\ Height = 2 /\ Width = 2
    /\ pc = "collapse" /\ i = 3
    /\ Cardinality(Cell(<<rand_x, rand_y>>).allowed) >= 2

====
